---- MODULE Spec2Model ----
(***************************************************************************)
(* Model of pg_demo/pg_ext_demo.py: the setup / demo / teardown lifecycle  *)
(* that run_demo drives over one psycopg2 connection (plus the transient   *)
(* connection of the unprivileged user), against a PostgreSQL database     *)
(* whose DDL is transactional.                                             *)
(*                                                                         *)
(* One process runs run_demo once (the __main__ block); MaxRuns processes  *)
(* run one after the other against the same database.  Every statement    *)
(* may fail by itself (inj), and fails when PostgreSQL would refuse it in  *)
(* the current state (missing object, duplicate object, aborted           *)
(* transaction).  Every prompt may be interrupted.                         *)
(***************************************************************************)
EXTENDS Naturals, FiniteSets, Sequences, TLC

\* number of processes (script invocations) run against the database
MaxRuns == 2

\* loop counts of the source
Query1Runs == 5
Query3Runs == 3
max_copy == 10

UNPRIV_USER == "__monitor"
Schema == "__demo"
Exts == {"pg_trgm", "pg_stat_statements"}
\* objects that live in schema __demo (or are privileges on them)
SchemaObjs == {Schema, "addr", "ix_addr_street", "ix_addr_street_gin",
               "fn_pss", "acl_fn", "acl_schema"}
\* privileges held by the role __monitor
RoleAcls == {"acl_fn", "acl_schema", "acl_db"}
Objects == SchemaObjs \cup Exts \cup {UNPRIV_USER, "acl_db"}

\* values of the setting shared_preload_libraries
Settings == {<<>>, <<"auto_explain">>, <<"pg_stat_statements">>,
             <<"auto_explain", "pg_stat_statements">>}

\* argparse: --no-teardown and --only-teardown are mutually exclusive
ArgSets == {a \in [init_demo : BOOLEAN, teardown : BOOLEAN, block_demo : BOOLEAN] :
              ~(a.teardown = FALSE /\ a.block_demo = TRUE)}

VARIABLES
  db,          \* committed database objects
  work,        \* objects as seen inside the primary session's transaction
  tx,          \* primary session: "idle", "intrans" or "aborted"
  autocommit,  \* primary session's autocommit flag
  uconn,       \* secondary session: "closed", "idle", "intrans", "aborted"
  EXTENSIONS,  \* the module-level registry
  pc,          \* position of the process
  exc,         \* exception in flight: "none", "Exception", "KeyboardInterrupt"
  args,        \* init_demo, teardown, block_demo
  setting,     \* shared_preload_libraries of the server
  runs,        \* processes started so far
  extRows,     \* rows of teardown's extension query still to be visited
  outcome,     \* how the last process ended
  \* observation of the current run
  preDb,       \* db when the run started
  valid,       \* result of validate_demo: "unknown", "active", "inactive"
  issued,      \* labels of the statements issued on the primary session
  uissued,     \* labels of the statements issued on the secondary session
  dropSchemaCount, \* times the namespace drop was issued
  raisedIn,    \* phase in which the first exception of the run was raised
  created,     \* extensions setup_demo created and committed
  injected,    \* some statement or prompt of the run failed by itself
  tdDone,      \* teardown_demo returned normally in this run
  tdEntry,     \* tx state when teardown_demo was entered ("none" before)
  prevTd,      \* db as the previous run's completed teardown left it
  failed,      \* labels of the primary session's statements that raised
  tdDb,        \* db when teardown_demo was entered
  db0          \* db before the first run

connVars == <<db, work, tx, autocommit>>
ctlVars == <<pc, exc, raisedIn>>
envVars == <<args, setting, runs, preDb, prevTd, outcome, db0>>
vars == <<db, work, tx, autocommit, uconn, EXTENSIONS, pc, exc, args, setting,
          runs, extRows, outcome, preDb, valid, issued, failed, uissued,
          dropSchemaCount, raisedIn, created, injected, tdDone, tdEntry, tdDb, prevTd, db0>>

NoDb == {"<none>"}

----------------------------------------------------------------------------
\* program positions by phase

ValidatePcs == {"check_preload_library", "check_existing_extensions", "validate_return"}
SetupPcs == {"setup_create_schema", "setup_ext_pg_trgm", "setup_ext_pg_stat_statements",
             "setup_search_path", "setup_except", "setup_commit"}
TrgmPcs == {"intro_pg_trgm", "create_addr_table", "load_addr_table", "init_except",
            "init_analyze", "init_prompt", "trgm_prompt_587",
            "create_addr_btree_index", "btree_analyze", "test_btree_explain1",
            "test_btree_prompt1", "test_btree_explain2", "test_btree_prompt2",
            "trgm_prompt_594", "create_addr_gin_index", "gin_analyze",
            "test_gin_explain1", "test_gin_prompt1", "test_gin_explain2",
            "test_gin_prompt2", "trgm_prompt_603"}
PssPcs == {"intro_pg_stat_statements", "pss_reset", "pss_prompt_226", "pss_query1",
           "pss_query2", "pss_query3", "pss_prompt_272", "pss_select",
           "pss_prompt_281", "unpriv_prompt_308", "create_user", "grant_connect",
           "grant_usage", "alter_user", "unpriv_connect", "unpriv_select_view",
           "unpriv_prompt_326", "create_function", "grant_execute",
           "unpriv_current_user", "unpriv_prompt_346", "unpriv_select_function",
           "unpriv_prompt_354", "unpriv_finally", "unpriv_rollback"}
TeardownPcs == {"td_revoke_function", "td_revoke_schema", "td_revoke_database",
                "td_drop_schema", "td_drop_role", "td_select_extensions",
                "td_drop_extensions"}

PhaseOf(p) ==
  IF p \in ValidatePcs THEN "validate"
  ELSE IF p \in SetupPcs THEN "setup"
  ELSE IF p \in TrgmPcs THEN "pg_trgm"
  ELSE IF p \in PssPcs THEN "pg_stat_statements"
  ELSE IF p \in TeardownPcs THEN "teardown"
  ELSE "run_demo"

\* statement labels by phase
SetupStmts == {"create schema", "create extension pg_trgm",
               "create extension pg_stat_statements", "set search_path"}
DemoStmts == {"create table addr", "copy addr", "analyze addr",
              "create index ix_addr_street", "create index ix_addr_street_gin",
              "explain analyze", "pg_stat_statements_reset", "QUERY1", "QUERY2",
              "QUERY3", "select pg_stat_statements", "create user", "grant connect",
              "grant usage", "alter user", "create function", "grant execute"}
RevokeStmts == {"revoke function", "revoke schema", "revoke database"}
DropExtStmts == {"drop extension pg_trgm", "drop extension pg_stat_statements"}
TeardownStmts == RevokeStmts \cup DropExtStmts \cup
                 {"drop schema", "drop role", "select pg_extension (teardown)"}

----------------------------------------------------------------------------
\* the primary connection as psycopg2 and PostgreSQL behave

Conn == [db |-> db, work |-> work, tx |-> tx, ac |-> autocommit]

SetConn(c) ==
  /\ db' = c.db
  /\ work' = c.work
  /\ tx' = c.tx
  /\ autocommit' = c.ac

\* a statement succeeds unless it fails by itself, the transaction is aborted,
\* or the server refuses it in the current state
Succeeds(c, inj, pre) == ~inj /\ (c.ac \/ c.tx # "aborted") /\ pre

\* cursor.execute: eff is the session's view of the objects after the statement
execute(c, ok, eff) ==
  IF ok
    THEN IF c.ac THEN [c EXCEPT !.db = eff, !.work = eff, !.tx = "idle"]
                 ELSE [c EXCEPT !.work = eff, !.tx = "intrans"]
    ELSE IF c.ac THEN c
                 ELSE [c EXCEPT !.tx = "aborted"]

\* connection.commit: an aborted transaction commits nothing
commit(c) ==
  IF c.tx = "intrans" THEN [c EXCEPT !.db = c.work, !.tx = "idle"]
                      ELSE [c EXCEPT !.work = c.db, !.tx = "idle"]

\* connection.rollback
rollback(c) == [c EXCEPT !.work = c.db, !.tx = "idle"]

Goto(next) == pc' = next /\ UNCHANGED <<exc, raisedIn>>

Throw(handler, kind) ==
  /\ pc' = handler
  /\ exc' = kind
  /\ raisedIn' = IF raisedIn = "none" THEN PhaseOf(pc) ELSE raisedIn


\* variables a plain statement of the primary session leaves alone
stmtRest == <<uconn, EXTENSIONS, extRows, valid, uissued, dropSchemaCount,
              created, tdDone, tdEntry, tdDb>>

\* execute(conn, sql) at position here: the server accepts the statement when
\* `pre` holds and the session then sees the objects `eff`; `then` is the commit
\* or rollback that follows the statement in the same function; a failure
\* raises to `handler`
Exec(here, label, pre, eff, then, next, handler) ==
  /\ pc = here
  /\ \E inj \in BOOLEAN :
       LET ok == Succeeds(Conn, inj, pre)
           c1 == execute(Conn, ok, eff)
           c2 == IF ok /\ then = "commit" THEN commit(c1)
                 ELSE IF ok /\ then = "rollback" THEN rollback(c1)
                 ELSE c1
       IN /\ SetConn(c2)
          /\ issued' = issued \cup {label}
          /\ failed' = IF ok THEN failed ELSE failed \cup {label}
          /\ injected' = (injected \/ inj)
          /\ IF ok THEN Goto(next) ELSE Throw(handler, "Exception")
  /\ UNCHANGED envVars

\* a statement that needs the objects `needs`, refuses when one of `lacks`
\* exists, adds `adds` and removes `dels`
Stmt(here, label, needs, lacks, adds, dels, then, next, handler) ==
  /\ Exec(here, label, needs \subseteq work /\ lacks \cap work = {},
          (work \cup adds) \ dels, then, next, handler)
  /\ UNCHANGED stmtRest

\* prompt(message): input() returns, or the user interrupts it
Prompt(here, next, handler) ==
  /\ pc = here
  /\ \E inj \in BOOLEAN :
       /\ injected' = (injected \/ inj)
       /\ IF inj THEN Throw(handler, "KeyboardInterrupt") ELSE Goto(next)
  /\ UNCHANGED <<connVars, stmtRest, envVars, issued, failed>>

\* conn.autocommit = True; execute(conn, "analyze __demo.addr;");
\* conn.autocommit = False.  psycopg2 refuses to change autocommit inside a
\* transaction; a failing analyze leaves autocommit on.
Analyze(here, next, handler) ==
  /\ pc = here
  /\ \E inj \in BOOLEAN :
       LET settable == tx = "idle"
           c0 == [Conn EXCEPT !.ac = TRUE]
           ok == settable /\ Succeeds(c0, inj, "addr" \in work)
           c1 == execute(c0, ok, work)
       IN /\ SetConn(IF ~settable THEN Conn
                     ELSE IF ok THEN [c1 EXCEPT !.ac = FALSE] ELSE c1)
          /\ issued' = IF settable THEN issued \cup {"analyze addr"} ELSE issued
          /\ failed' = IF ok \/ ~settable THEN failed ELSE failed \cup {"analyze addr"}
          /\ injected' = (injected \/ inj)
          /\ IF ok THEN Goto(next) ELSE Throw(handler, "Exception")
  /\ UNCHANGED <<stmtRest, envVars>>

----------------------------------------------------------------------------
\* a fresh database: nothing of the demo exists, some extensions may be installed

Init ==
  /\ db \in SUBSET Exts
  /\ work = db
  /\ tx = "idle"
  /\ autocommit = FALSE
  /\ uconn = "closed"
  /\ EXTENSIONS = {}
  /\ pc = "shell"
  /\ exc = "none"
  /\ args = [init_demo |-> TRUE, teardown |-> TRUE, block_demo |-> FALSE]
  /\ setting = <<>>
  /\ runs = 0
  /\ extRows = {}
  /\ outcome = "none"
  /\ preDb = db
  /\ valid = "unknown"
  /\ issued = {}
  /\ failed = {}
  /\ tdDb = NoDb
  /\ db0 = db
  /\ uissued = {}
  /\ dropSchemaCount = 0
  /\ raisedIn = "none"
  /\ created = {}
  /\ injected = FALSE
  /\ tdDone = FALSE
  /\ tdEntry = "none"
  /\ prevTd = NoDb

\* a new process: module state is initial (EXTENSIONS = set()), __main__ parses
\* the arguments and run_demo connects
StartRun ==
  /\ pc = "shell"
  /\ runs < MaxRuns
  /\ runs' = runs + 1
  /\ args' \in ArgSets
  /\ setting' \in Settings
  /\ EXTENSIONS' = {}
  /\ SetConn([db |-> db, work |-> db, tx |-> "idle", ac |-> FALSE])
  /\ uconn' = "closed"
  /\ pc' = "run_demo"
  /\ exc' = "none"
  /\ extRows' = {}
  /\ outcome' = "none"
  /\ preDb' = db
  /\ prevTd' = IF tdDone THEN db ELSE NoDb
  /\ valid' = "unknown"
  /\ issued' = {}
  /\ failed' = {}
  /\ tdDb' = NoDb
  /\ db0' = db0
  /\ uissued' = {}
  /\ dropSchemaCount' = 0
  /\ raisedIn' = "none"
  /\ created' = {}
  /\ injected' = FALSE
  /\ tdDone' = FALSE
  /\ tdEntry' = "none"

\* run_demo, `if not block_demo and validate_demo(conn)`: validate_demo is
\* called only when block_demo is false
run_demo_try ==
  /\ pc = "run_demo"
  /\ Goto(IF args.block_demo THEN "finally" ELSE "check_preload_library")
  /\ UNCHANGED <<connVars, stmtRest, envVars, issued, failed, injected>>

\* lib_name in res.setting
LibLoaded(lib_name, s) == \E i \in 1..Len(s) : s[i] = lib_name

check_preload_library ==
  /\ pc = "check_preload_library"
  /\ \E inj \in BOOLEAN :
       LET ok == Succeeds(Conn, inj, TRUE) IN
       /\ SetConn(execute(Conn, ok, work))
       /\ issued' = issued \cup {"select pg_settings"}
       /\ failed' = IF ok THEN failed ELSE failed \cup {"select pg_settings"}
       /\ injected' = (injected \/ inj)
       /\ IF ~ok THEN Throw("finally", "Exception") /\ valid' = valid
          ELSE IF LibLoaded("pg_stat_statements", setting)
            THEN Goto("check_existing_extensions") /\ valid' = valid
            ELSE Goto("validate_return") /\ valid' = "inactive"
  /\ UNCHANGED <<uconn, EXTENSIONS, extRows, uissued, dropSchemaCount, created,
                 tdDone, tdEntry, tdDb, envVars>>

check_existing_extensions ==
  /\ pc = "check_existing_extensions"
  /\ \E inj \in BOOLEAN :
       LET ok == Succeeds(Conn, inj, TRUE)
           c1 == execute(Conn, ok, work)
       IN /\ SetConn(IF ok THEN rollback(c1) ELSE c1)
          /\ issued' = issued \cup {"select pg_extension"}
          /\ failed' = IF ok THEN failed ELSE failed \cup {"select pg_extension"}
          /\ injected' = (injected \/ inj)
          /\ EXTENSIONS' = IF ok THEN EXTENSIONS \cup (work \cap Exts) ELSE EXTENSIONS
          /\ IF ok THEN Goto("validate_return") /\ valid' = "active"
                   ELSE Throw("finally", "Exception") /\ valid' = valid
  /\ UNCHANGED <<uconn, extRows, uissued, dropSchemaCount, created, tdDone,
                 tdEntry, tdDb, envVars>>

\* the condition of run_demo's if statement
DemoGateNoValidation(block_demo, validated) == ~block_demo
DemoGate(block_demo, validated) == ~block_demo /\ validated

run_demo_if ==
  /\ pc = "validate_return"
  /\ Goto(IF DemoGate(args.block_demo, valid = "active")
            THEN IF args.init_demo THEN "setup_create_schema" ELSE "intro_pg_trgm"
            ELSE "finally")
  /\ UNCHANGED <<connVars, stmtRest, envVars, issued, failed, injected>>

----------------------------------------------------------------------------
\* setup_demo

\* `if ext not in EXTENSIONS` of setup_demo
ShouldCreateAlways(ext, registry) == TRUE
ShouldCreate(ext, registry) == ext \notin registry

setup_create_schema ==
  Stmt("setup_create_schema", "create schema", {}, {Schema}, {Schema}, {}, "",
       "setup_ext_pg_trgm", "setup_except")

SetupExt(here, ext, next) ==
  IF ShouldCreate(ext, EXTENSIONS)
    THEN Stmt(here, "create extension " \o ext, {}, {ext}, {ext}, {}, "", next,
              "setup_except")
    ELSE /\ pc = here
         /\ Goto(next)
         /\ UNCHANGED <<connVars, stmtRest, envVars, issued, failed, injected>>

setup_ext_pg_trgm ==
  SetupExt("setup_ext_pg_trgm", "pg_trgm", "setup_ext_pg_stat_statements")

setup_ext_pg_stat_statements ==
  SetupExt("setup_ext_pg_stat_statements", "pg_stat_statements", "setup_search_path")

setup_search_path ==
  Stmt("setup_search_path", "set search_path", {}, {}, {}, {}, "", "setup_commit",
       "setup_except")

\* what the except clause of setup_demo does to the connection
SetupFailureKeepsTx(c) == c
SetupFailure(c) == rollback(c)

\* except Exception as e: conn.rollback(); raise e
setup_except ==
  /\ pc = "setup_except"
  /\ SetConn(SetupFailure(Conn))
  /\ Goto("finally")
  /\ UNCHANGED <<stmtRest, envVars, issued, failed, injected>>

\* else: conn.commit()
setup_commit ==
  /\ pc = "setup_commit"
  /\ SetConn(commit(Conn))
  /\ created' = {e \in Exts : ShouldCreate(e, EXTENSIONS)}
  /\ Goto("intro_pg_trgm")
  /\ UNCHANGED <<uconn, EXTENSIONS, extRows, valid, uissued, dropSchemaCount,
                 tdDone, tdEntry, tdDb, envVars, issued, failed, injected>>


----------------------------------------------------------------------------
\* demo_pg_trgm

intro_pg_trgm ==
  Prompt("intro_pg_trgm",
         IF args.init_demo THEN "create_addr_table" ELSE "trgm_prompt_587", "finally")

\* init_pg_trgm, try: create_addr_table(conn) -- execute; conn.commit()
create_addr_table ==
  Stmt("create_addr_table", "create table addr", {Schema}, {"addr"}, {"addr"}, {},
       "commit", "load_addr_table", "init_except")

\* load_addr_table: max_copy times copy_addr_data (copy_from; conn.commit()),
\* then conn.commit(); k is the iteration a failure would hit
load_addr_table ==
  \E k \in 1..max_copy :
    Stmt("load_addr_table", "copy addr", {"addr"}, {}, {}, {}, "commit",
         "init_analyze", "init_except")

\* except Exception as e: conn.rollback(); raise e
init_except ==
  /\ pc = "init_except"
  /\ SetConn(rollback(Conn))
  /\ Goto("finally")
  /\ UNCHANGED <<stmtRest, envVars, issued, failed, injected>>

init_analyze == Analyze("init_analyze", "init_prompt", "finally")

init_prompt == Prompt("init_prompt", "trgm_prompt_587", "finally")

trgm_prompt_587 == Prompt("trgm_prompt_587", "create_addr_btree_index", "finally")

create_addr_btree_index ==
  Stmt("create_addr_btree_index", "create index ix_addr_street", {"addr"}, {},
       {"ix_addr_street"}, {}, "commit", "btree_analyze", "finally")

btree_analyze == Analyze("btree_analyze", "test_btree_explain1", "finally")

\* test_addr_btree_index
test_btree_explain1 ==
  Stmt("test_btree_explain1", "explain analyze", {"addr"}, {}, {}, {}, "",
       "test_btree_prompt1", "finally")

test_btree_prompt1 == Prompt("test_btree_prompt1", "test_btree_explain2", "finally")

test_btree_explain2 ==
  Stmt("test_btree_explain2", "explain analyze", {"addr"}, {}, {}, {}, "rollback",
       "test_btree_prompt2", "finally")

test_btree_prompt2 == Prompt("test_btree_prompt2", "trgm_prompt_594", "finally")

trgm_prompt_594 == Prompt("trgm_prompt_594", "create_addr_gin_index", "finally")

\* gin_trgm_ops is an operator class of pg_trgm
create_addr_gin_index ==
  Stmt("create_addr_gin_index", "create index ix_addr_street_gin",
       {"addr", "pg_trgm"}, {}, {"ix_addr_street_gin"}, {}, "commit", "gin_analyze",
       "finally")

gin_analyze == Analyze("gin_analyze", "test_gin_explain1", "finally")

\* test_addr_gin_index
test_gin_explain1 ==
  Stmt("test_gin_explain1", "explain analyze", {"addr"}, {}, {}, {}, "",
       "test_gin_prompt1", "finally")

test_gin_prompt1 == Prompt("test_gin_prompt1", "test_gin_explain2", "finally")

test_gin_explain2 ==
  Stmt("test_gin_explain2", "explain analyze", {"addr"}, {}, {}, {}, "rollback",
       "test_gin_prompt2", "finally")

test_gin_prompt2 == Prompt("test_gin_prompt2", "trgm_prompt_603", "finally")

trgm_prompt_603 == Prompt("trgm_prompt_603", "intro_pg_stat_statements", "finally")

----------------------------------------------------------------------------
\* demo_pg_stat_statements: intro, demo_pss_table, demo_unprivileged_user

intro_pg_stat_statements ==
  Prompt("intro_pg_stat_statements", "pss_reset", "finally")

\* execute(conn, "select pg_stat_statements_reset();").close(); conn.commit()
pss_reset ==
  Stmt("pss_reset", "pg_stat_statements_reset", {"pg_stat_statements"}, {}, {}, {},
       "commit", "pss_prompt_226", "finally")

pss_prompt_226 == Prompt("pss_prompt_226", "pss_query1", "finally")

pss_query1 ==
  \E k \in 1..Query1Runs :
    Stmt("pss_query1", "QUERY1", {"addr"}, {}, {}, {}, "", "pss_query2", "finally")

pss_query2 ==
  Stmt("pss_query2", "QUERY2", {"addr"}, {}, {}, {}, "", "pss_query3", "finally")

pss_query3 ==
  \E k \in 1..Query3Runs :
    Stmt("pss_query3", "QUERY3", {"addr"}, {}, {}, {}, "", "pss_prompt_272", "finally")

pss_prompt_272 == Prompt("pss_prompt_272", "pss_select", "finally")

\* select * from public.pg_stat_statements ...; conn.rollback()
pss_select ==
  Stmt("pss_select", "select pg_stat_statements", {"pg_stat_statements"}, {}, {}, {},
       "rollback", "pss_prompt_281", "finally")

pss_prompt_281 == Prompt("pss_prompt_281", "unpriv_prompt_308", "finally")

unpriv_prompt_308 ==
  Prompt("unpriv_prompt_308",
         IF args.init_demo THEN "create_user" ELSE "unpriv_connect", "finally")

\* create_unpriveleged_user
create_user ==
  Stmt("create_user", "create user", {}, {UNPRIV_USER}, {UNPRIV_USER}, {}, "",
       "grant_connect", "finally")

grant_connect ==
  Stmt("grant_connect", "grant connect", {UNPRIV_USER}, {}, {"acl_db"}, {}, "",
       "grant_usage", "finally")

grant_usage ==
  Stmt("grant_usage", "grant usage", {UNPRIV_USER, Schema}, {}, {"acl_schema"}, {}, "",
       "alter_user", "finally")

alter_user ==
  Stmt("alter_user", "alter user", {UNPRIV_USER}, {}, {}, {}, "commit",
       "unpriv_connect", "finally")

\* variables a step of the secondary session leaves alone
uRest == <<EXTENSIONS, extRows, valid, issued, failed, dropSchemaCount, created, tdDone,
           tdEntry, tdDb>>

\* uconn = connect(create_user_db_url(...)): the role must exist (committed)
unpriv_connect ==
  /\ pc = "unpriv_connect"
  /\ \E inj \in BOOLEAN :
       LET ok == ~inj /\ UNPRIV_USER \in db IN
       /\ uconn' = IF ok THEN "idle" ELSE uconn
       /\ injected' = (injected \/ inj)
       /\ IF ok THEN Goto("unpriv_select_view") ELSE Throw("finally", "Exception")
  /\ UNCHANGED <<connVars, uRest, envVars, uissued>>

\* execute(uconn, sql) as it would behave outside the try block: a failure
\* leaves demo_unprivileged_user without passing through its finally clause
UStmtNoFinally(here, label, needs, next) ==
  /\ pc = here
  /\ \E inj \in BOOLEAN :
       LET ok == ~inj /\ uconn # "aborted" /\ needs \subseteq db IN
       /\ uconn' = IF ok THEN "intrans" ELSE "aborted"
       /\ uissued' = uissued \cup {label}
       /\ injected' = (injected \/ inj)
       /\ IF ok THEN Goto(next) ELSE Throw("finally", "Exception")
  /\ UNCHANGED <<connVars, uRest, envVars>>

\* execute(uconn, sql): a read of the committed database
UStmt(here, label, needs, next) ==
  /\ pc = here
  /\ \E inj \in BOOLEAN :
       LET ok == ~inj /\ uconn # "aborted" /\ needs \subseteq db IN
       /\ uconn' = IF ok THEN "intrans" ELSE "aborted"
       /\ uissued' = uissued \cup {label}
       /\ injected' = (injected \/ inj)
       /\ IF ok THEN Goto(next) ELSE Throw("unpriv_finally", "Exception")
  /\ UNCHANGED <<connVars, uRest, envVars>>

unpriv_select_view ==
  UStmt("unpriv_select_view", "select pg_stat_statements", {"pg_stat_statements"},
        "unpriv_prompt_326")

unpriv_prompt_326 == Prompt("unpriv_prompt_326", "create_function", "unpriv_finally")

create_function ==
  Stmt("create_function", "create function", {Schema, "pg_stat_statements"}, {},
       {"fn_pss"}, {}, "", "grant_execute", "unpriv_finally")

\* the grant without the commit that follows it
grant_execute_uncommitted ==
  Stmt("grant_execute", "grant execute", {"fn_pss", UNPRIV_USER}, {}, {"acl_fn"}, {},
       "", "unpriv_current_user", "unpriv_finally")

\* grant execute ...; conn.commit()
grant_execute ==
  Stmt("grant_execute", "grant execute", {"fn_pss", UNPRIV_USER}, {}, {"acl_fn"}, {},
       "commit", "unpriv_current_user", "unpriv_finally")

unpriv_current_user ==
  UStmt("unpriv_current_user", "select current_user", {}, "unpriv_prompt_346")

unpriv_prompt_346 ==
  Prompt("unpriv_prompt_346", "unpriv_select_function", "unpriv_finally")

\* the caller needs usage on schema __demo; execute on a function is public
unpriv_select_function ==
  UStmt("unpriv_select_function", "select __demo.pg_stat_statements()",
        {"fn_pss", "acl_schema", "pg_stat_statements"}, "unpriv_prompt_354")

unpriv_prompt_354 == Prompt("unpriv_prompt_354", "unpriv_finally", "unpriv_finally")

\* finally: uconn.rollback(); uconn.close()
unpriv_finally ==
  /\ pc = "unpriv_finally"
  /\ uconn' = "closed"
  /\ Goto(IF exc = "none" THEN "unpriv_rollback" ELSE "finally")
  /\ UNCHANGED <<connVars, uRest, envVars, uissued, injected>>

\* conn.rollback() that ends demo_unprivileged_user
unpriv_rollback ==
  /\ pc = "unpriv_rollback"
  /\ SetConn(rollback(Conn))
  /\ Goto("finally")
  /\ UNCHANGED <<stmtRest, envVars, issued, failed, injected>>


----------------------------------------------------------------------------
\* run_demo's finally clause and teardown_demo

\* `if teardown or block_demo`
TeardownOnlyWhenBlocked(teardown, block_demo) == block_demo
TeardownConfigured(teardown, block_demo) == teardown \/ block_demo

run_demo_finally ==
  /\ pc = "finally"
  /\ LET td == TeardownConfigured(args.teardown, args.block_demo) IN
       /\ Goto(IF td THEN "td_revoke_function" ELSE "exit_with")
       /\ tdEntry' = IF td THEN tx ELSE tdEntry
       /\ tdDb' = IF td THEN db ELSE tdDb
  /\ UNCHANGED <<connVars, uconn, EXTENSIONS, extRows, valid, uissued,
                 dropSchemaCount, created, tdDone, envVars, issued, failed, injected>>

\* what follows a failed revoke: `except Exception: conn.rollback()`, and
\* teardown goes on with the next statement
RevokeFailedRaises(next) == Throw("exit_with", "Exception")
RevokeFailed(next) == Goto(next)

Revoke(here, label, needs, dels, next) ==
  /\ pc = here
  /\ \E inj \in BOOLEAN :
       LET ok == Succeeds(Conn, inj, needs \subseteq work)
           c1 == execute(Conn, ok, work \ dels)
       IN /\ SetConn(IF ok THEN c1 ELSE rollback(c1))
          /\ issued' = issued \cup {label}
          /\ failed' = IF ok THEN failed ELSE failed \cup {label}
          /\ injected' = (injected \/ inj)
          /\ IF ok THEN Goto(next) ELSE RevokeFailed(next)
  /\ UNCHANGED <<stmtRest, envVars>>

td_revoke_function ==
  Revoke("td_revoke_function", "revoke function", {"fn_pss", UNPRIV_USER}, {"acl_fn"},
         "td_revoke_schema")

td_revoke_schema ==
  Revoke("td_revoke_schema", "revoke schema", {Schema, UNPRIV_USER}, {"acl_schema"},
         "td_revoke_database")

td_revoke_database ==
  Revoke("td_revoke_database", "revoke database", {UNPRIV_USER}, {"acl_db"},
         "td_drop_schema")

\* drop schema if exists __demo cascade
td_drop_schema ==
  /\ Exec("td_drop_schema", "drop schema", TRUE, work \ SchemaObjs, "", "td_drop_role",
          "exit_with")
  /\ dropSchemaCount' = dropSchemaCount + 1
  /\ UNCHANGED <<uconn, EXTENSIONS, extRows, valid, uissued, created, tdDone, tdEntry, tdDb>>

\* the role drop as a best-effort step: a failure goes on to the extensions
td_drop_role_best_effort ==
  /\ Exec("td_drop_role", "drop role",
          UNPRIV_USER \notin work \/ RoleAcls \cap work = {},
          work \ {UNPRIV_USER}, "commit", "td_select_extensions",
          "td_select_extensions")
  /\ UNCHANGED stmtRest

\* drop role if exists __monitor; conn.commit() -- a role that still holds
\* privileges cannot be dropped
td_drop_role ==
  /\ Exec("td_drop_role", "drop role",
          UNPRIV_USER \notin work \/ RoleAcls \cap work = {},
          work \ {UNPRIV_USER}, "commit", "td_select_extensions", "exit_with")
  /\ UNCHANGED stmtRest

\* select extname from pg_catalog.pg_extension where extname in (...); fetchall()
td_select_extensions ==
  /\ Exec("td_select_extensions", "select pg_extension (teardown)", TRUE, work, "",
          "td_drop_extensions", "exit_with")
  /\ extRows' = IF pc' = "td_drop_extensions" THEN work \cap Exts ELSE extRows
  /\ UNCHANGED <<uconn, EXTENSIONS, valid, uissued, dropSchemaCount, created, tdDone,
                 tdEntry, tdDb>>

\* `if ext.extname not in EXTENSIONS` of teardown_demo
ShouldDropAlways(ext, registry) == TRUE
ShouldDropNever(ext, registry) == FALSE
ShouldDrop(ext, registry) == ext \notin registry

\* one iteration of the for loop over the fetched rows
td_drop_extension ==
  /\ pc = "td_drop_extensions"
  /\ \E ext \in extRows :
       /\ extRows' = extRows \ {ext}
       /\ IF ShouldDrop(ext, EXTENSIONS)
            THEN Exec("td_drop_extensions", "drop extension " \o ext, TRUE,
                      work \ {ext}, "", "td_drop_extensions", "exit_with")
            ELSE /\ Goto("td_drop_extensions")
                 /\ UNCHANGED <<connVars, envVars, issued, failed, injected>>
  /\ UNCHANGED <<uconn, EXTENSIONS, valid, uissued, dropSchemaCount, created, tdDone,
                 tdEntry, tdDb>>

\* the loop is over: conn.commit(), teardown_demo returns
td_commit ==
  /\ pc = "td_drop_extensions"
  /\ extRows = {}
  /\ SetConn(commit(Conn))
  /\ tdDone' = TRUE
  /\ Goto("exit_with")
  /\ UNCHANGED <<uconn, EXTENSIONS, extRows, valid, uissued, dropSchemaCount, created,
                 tdEntry, tdDb, envVars, issued, failed, injected>>

\* leaving `with connect(db_url) as conn`: psycopg2 commits when the block ends
\* normally and rolls back when an exception leaves it
exit_with ==
  /\ pc = "exit_with"
  /\ SetConn(IF exc = "none" THEN commit(Conn) ELSE rollback(Conn))
  /\ Goto("main")
  /\ UNCHANGED <<stmtRest, envVars, issued, failed, injected>>

\* __main__: except KeyboardInterrupt prints a message; anything else is a
\* traceback; the process ends and its connection is gone
main ==
  /\ pc = "main"
  /\ outcome' = IF exc = "none" THEN "completed"
                ELSE IF exc = "KeyboardInterrupt" THEN "interrupted"
                ELSE "traceback"
  /\ pc' = "shell"
  /\ UNCHANGED <<connVars, stmtRest, exc, raisedIn, args, setting, runs, preDb,
                 prevTd, db0, issued, failed, injected>>

Next ==
  \/ StartRun
  \/ run_demo_try \/ check_preload_library \/ check_existing_extensions \/ run_demo_if
  \/ setup_create_schema \/ setup_ext_pg_trgm \/ setup_ext_pg_stat_statements
  \/ setup_search_path \/ setup_except \/ setup_commit
  \/ intro_pg_trgm \/ create_addr_table \/ load_addr_table \/ init_except
  \/ init_analyze \/ init_prompt \/ trgm_prompt_587 \/ create_addr_btree_index
  \/ btree_analyze \/ test_btree_explain1 \/ test_btree_prompt1
  \/ test_btree_explain2 \/ test_btree_prompt2 \/ trgm_prompt_594
  \/ create_addr_gin_index \/ gin_analyze \/ test_gin_explain1 \/ test_gin_prompt1
  \/ test_gin_explain2 \/ test_gin_prompt2 \/ trgm_prompt_603
  \/ intro_pg_stat_statements \/ pss_reset \/ pss_prompt_226 \/ pss_query1
  \/ pss_query2 \/ pss_query3 \/ pss_prompt_272 \/ pss_select \/ pss_prompt_281
  \/ unpriv_prompt_308 \/ create_user \/ grant_connect \/ grant_usage \/ alter_user
  \/ unpriv_connect \/ unpriv_select_view \/ unpriv_prompt_326 \/ create_function
  \/ grant_execute \/ unpriv_current_user \/ unpriv_prompt_346
  \/ unpriv_select_function \/ unpriv_prompt_354 \/ unpriv_finally \/ unpriv_rollback
  \/ run_demo_finally \/ td_revoke_function \/ td_revoke_schema \/ td_revoke_database
  \/ td_drop_schema \/ td_drop_role \/ td_select_extensions \/ td_drop_extension
  \/ td_commit \/ exit_with \/ main

Spec == Init /\ [][Next]_vars

TypeOK ==
  /\ db \subseteq Objects
  /\ work \subseteq Objects
  /\ tx \in {"idle", "intrans", "aborted"}
  /\ autocommit \in BOOLEAN
  /\ uconn \in {"closed", "idle", "intrans", "aborted"}
  /\ EXTENSIONS \subseteq Exts
  /\ exc \in {"none", "Exception", "KeyboardInterrupt"}
  /\ args \in ArgSets
  /\ runs \in 0..MaxRuns
  /\ extRows \subseteq Exts


----------------------------------------------------------------------------
\* properties

\* run_demo has returned or raised (the with block is left)
Terminated == pc \in {"main", "shell"} /\ runs > 0

DemoPhases == {"pg_trgm", "pg_stat_statements"}

\* extensions for which teardown issued a drop in this run
DroppedNames == {e \in Exts : ("drop extension " \o e) \in issued}

\* C1: an extension installed before run_demo started is still installed when
\* run_demo terminates, for every combination of flags and validation outcome
C1_PreexistingExtensionsKept ==
  Terminated => (preDb \cap Exts) \subseteq db

\* C2: with teardown set and teardown-only unset, when a statement or prompt of
\* a demo phase raises, teardown_demo is entered and the namespace drop is
\* issued exactly once before run_demo terminates, whatever the revokes did
C2_TeardownAfterDemoFailure ==
  (Terminated /\ args.teardown /\ ~args.block_demo /\ raisedIn \in DemoPhases)
    => (tdEntry # "none" /\ dropSchemaCount = 1)

C2_Witness ==
  /\ pc = "shell"
  /\ args.teardown /\ ~args.block_demo
  /\ raisedIn = "pg_stat_statements"
  /\ tdEntry = "aborted"
  /\ dropSchemaCount = 1
  /\ "acl_db" \in preDb

\* C3: when validation reports the preload library inactive, teardown_demo runs
\* only if teardown-only was requested; with teardown-only unset no teardown
\* statement is issued, whatever the teardown flag
C3_NoTeardownWhenInactive ==
  valid = "inactive" =>
    /\ (tdEntry # "none" => args.block_demo)
    /\ (~args.block_demo => issued \cap TeardownStmts = {})

\* C4: setup and demo statements are issued only in runs where teardown-only is
\* unset and validation reported the library active; none is issued when
\* check_preload_library returned False or block_demo is true
C4_SetupDemoGated ==
  /\ (issued \cap (SetupStmts \cup DemoStmts) # {} \/ uissued # {})
       => (~args.block_demo /\ valid = "active")
  /\ (valid = "inactive" \/ args.block_demo)
       => (issued \cap (SetupStmts \cup DemoStmts) = {} /\ uissued = {})

C4_Witness ==
  /\ pc = "shell"
  /\ valid = "inactive"
  /\ args.init_demo
  /\ "drop schema" \in issued
  /\ issued \cap (SetupStmts \cup DemoStmts) = {}

\* what teardown idempotence compares: the schema, the role, the extensions
Visible(d) == d \cap ({Schema, UNPRIV_USER} \cup Exts)

\* C5: a teardown-only run that follows a run whose teardown completed raises
\* no error and leaves schema, role and installed extensions as the first
\* teardown left them
C5_TeardownIdempotent ==
  (Terminated /\ args.block_demo /\ prevTd # NoDb /\ ~injected)
    => (exc = "none" /\ Visible(db) = Visible(prevTd))

\* C6: when a statement of setup_demo raises, the primary session is rolled
\* back, nothing that setup attempt created is committed, and the exception
\* is re-raised to run_demo
C6_SetupAtomic ==
  /\ (pc \in SetupPcs \ {"setup_commit"}) => db = preDb
  /\ (raisedIn = "setup" /\ pc = "finally")
       => (tx = "idle" /\ work = db /\ db = preDb /\ exc = "Exception")
  /\ (raisedIn = "setup" /\ Terminated)
       => (db \cap ({Schema} \cup Exts)) \subseteq preDb

C6_Witness ==
  /\ pc = "finally"
  /\ raisedIn = "setup"
  /\ {"create schema", "create extension pg_trgm"} \subseteq issued
  /\ db = {}

\* C7: teardown_demo never issues drop extension for a name in the registry,
\* and no step after check_existing_extensions modifies the registry
C7_RegistryRespected ==
  [][/\ (pc \notin {"shell", "check_existing_extensions"}
           => EXTENSIONS' = EXTENSIONS)
     /\ DroppedNames' \cap EXTENSIONS' = {}]_vars

C7_Witness ==
  /\ pc = "shell"
  /\ EXTENSIONS = {"pg_trgm"}
  /\ DroppedNames = {"pg_stat_statements"}
  /\ "pg_trgm" \in db

\* C8: an extension that setup_demo installed because it was absent from the
\* registry has been dropped when run_demo terminates, on every path on which
\* teardown_demo runs
C8_CreatedExtensionsDropped ==
  (Terminated /\ TeardownConfigured(args.teardown, args.block_demo)
     /\ tdEntry # "none")
    => created \cap db = {}

\* a phase of run_demo has just completed without raising
PhaseCompleted ==
  /\ exc = "none"
  /\ \/ pc = "validate_return"
     \/ pc = "setup_create_schema"
     \/ pc = "intro_pg_trgm"
     \/ pc = "intro_pg_stat_statements"
     \/ pc = "finally" /\ valid = "active"
     \/ pc = "exit_with" /\ tdDone

\* C9: whenever a phase completes without raising (validation active or
\* inactive, setup, either demo, teardown) the primary session has no open
\* transaction
C9_NoOpenTransactionBetweenPhases ==
  PhaseCompleted => tx = "idle"

\* C10: when a statement of setup or of a demo phase raises, the primary
\* session's transaction is rolled back before teardown_demo issues its first
\* statement
C10_RolledBackBeforeTeardown ==
  (pc = "td_revoke_function" /\ exc = "Exception"
     /\ raisedIn \in {"setup"} \cup DemoPhases)
    => tx = "idle"


FailablePhases == {"setup"} \cup DemoPhases

\* C11: if setup or a demo phase raises, run_demo never finishes normally:
\* teardown (when configured) runs first and then an exception propagates out
\* of run_demo, whether or not teardown itself succeeds
C11_FailurePropagates ==
  /\ (pc \in {"exit_with", "main"} /\ raisedIn \in FailablePhases)
       => /\ exc # "none"
          /\ (args.teardown \/ args.block_demo) => tdEntry # "none"
  /\ (pc = "shell" /\ raisedIn \in FailablePhases) => outcome # "completed"

C11_Witness ==
  /\ pc = "shell"
  /\ raisedIn = "setup"
  /\ tdEntry # "none"
  /\ "drop role" \in failed
  /\ outcome = "traceback"

\* C12: whatever subset of the three revokes fails, all three are issued in
\* order (function, schema, database), no revoke failure leaves
\* teardown_demo, and the namespace drop is issued afterwards
C12_RevokesBestEffort ==
  [][/\ pc = "td_revoke_function"
          => /\ issued \cap TeardownStmts = {}
             /\ pc' = "td_revoke_schema" /\ exc' = exc
             /\ issued' \cap TeardownStmts = {"revoke function"}
     /\ pc = "td_revoke_schema"
          => /\ pc' = "td_revoke_database" /\ exc' = exc
             /\ issued' \cap TeardownStmts = {"revoke function", "revoke schema"}
     /\ pc = "td_revoke_database"
          => /\ pc' = "td_drop_schema" /\ exc' = exc
             /\ issued' \cap TeardownStmts = RevokeStmts
     /\ pc = "td_drop_schema"
          => issued' \cap TeardownStmts = RevokeStmts \cup {"drop schema"}]_vars

C12_Witness ==
  /\ pc = "td_drop_role"
  /\ failed \cap TeardownStmts = {"revoke function", "revoke database"}
  /\ "acl_schema" \in tdDb
  /\ "drop schema" \in issued

\* C13: a KeyboardInterrupt raised by a prompt is caught by no handler inside
\* setup, demo or teardown code, triggers teardown when configured, and reaches
\* the handler of __main__, which prints the interruption message
C13_InterruptReachesMain ==
  [][/\ (exc = "KeyboardInterrupt" /\ pc \notin {"main", "shell"})
          => exc' = "KeyboardInterrupt"
     /\ (exc = "KeyboardInterrupt" /\ pc = "finally"
           /\ (args.teardown \/ args.block_demo))
          => pc' = "td_revoke_function"
     /\ (exc = "KeyboardInterrupt" /\ pc = "main") => outcome' = "interrupted"]_vars

\* positions of demo_unprivileged_user between connect and the finally clause
UconnOpenPcs == {"unpriv_select_view", "unpriv_prompt_326", "create_function",
                 "grant_execute", "unpriv_current_user", "unpriv_prompt_346",
                 "unpriv_select_function", "unpriv_prompt_354", "unpriv_finally"}

UconnReads == {"select pg_stat_statements", "select current_user",
               "select __demo.pg_stat_statements()"}

\* C14: once opened, the secondary connection is rolled back and closed on
\* every exit path before demo_unprivileged_user returns or raises; it is
\* never open when teardown starts; every statement issued on it is a read
C14_SecondarySessionScoped ==
  /\ uconn # "closed" => pc \in UconnOpenPcs
  /\ pc \in TeardownPcs \cup {"finally", "exit_with", "main", "shell"}
       => uconn = "closed"
  /\ uissued \subseteq UconnReads

C14_Witness ==
  /\ pc = "td_revoke_function"
  /\ uconn = "closed"
  /\ exc = "Exception"
  /\ raisedIn = "pg_stat_statements"
  /\ "select current_user" \in uissued
  /\ failed = {}

\* C15 as stated: after any sequence of invocations whose last one runs
\* teardown to completion, schema and role are absent and no extension is
\* installed that was not installed before the first invocation
C15_NothingLeftSinceFirstRun ==
  (Terminated /\ tdDone)
    => /\ Schema \notin db /\ UNPRIV_USER \notin db
       /\ (db \cap Exts) \subseteq db0

\* C15 amended: ... and no extension is installed that was not installed
\* before the last invocation started
C15_NothingLeftSinceLastRun ==
  (Terminated /\ tdDone)
    => /\ db \cap (Objects \ Exts) = {}
       /\ (db \cap Exts) \subseteq preDb

C15_Witness ==
  /\ pc = "shell"
  /\ tdDone
  /\ runs = 2
  /\ valid = "active"
  /\ {Schema, UNPRIV_USER, "addr", "acl_db"} \subseteq preDb
  /\ (preDb \cap Exts) # (db0 \cap Exts)
  /\ db = preDb \cap Exts


UnmaskedRead == "select __demo.pg_stat_statements()"

\* C16: the secondary session's read through __demo.pg_stat_statements() is
\* issued only after the primary session has created the function, granted
\* execute on it and committed; every secondary read issued before that commit
\* goes through the pg_stat_statements view
C16_UnmaskedReadAfterGrant ==
  [][/\ (UnmaskedRead \in uissued' /\ UnmaskedRead \notin uissued)
          => /\ {"create function", "grant execute"} \subseteq issued \ failed
             /\ {"fn_pss", "acl_fn"} \subseteq db
             /\ tx = "idle"
     /\ (/\ uissued' # uissued
         /\ "grant execute" \notin issued \ failed \/ ~({"fn_pss", "acl_fn"} \subseteq db))
          => uissued' \subseteq {"select pg_stat_statements"}]_vars

C16_Witness ==
  /\ pc = "unpriv_prompt_354"
  /\ UnmaskedRead \in uissued
  /\ uconn = "intrans"
  /\ "fn_pss" \notin preDb
  /\ {"fn_pss", "acl_fn"} \subseteq db

\* C17: whenever teardown_demo consults the registry, the registry has been
\* populated in the same run by the validation-time query of installed
\* extensions, also when teardown-only is set
C17_RegistryPopulatedBeforeTeardown ==
  (pc = "td_drop_extensions" /\ extRows # {})
    => (valid = "active" /\ "select pg_extension" \in issued \ failed)

ExtCleanupStmts == {"select pg_extension (teardown)"} \cup DropExtStmts

\* C18: if the namespace drop or the role drop of teardown_demo raises, the
\* exception propagates out of teardown_demo and neither the query of
\* installed extensions nor any drop extension is attempted in that run
C18_DropFailureSkipsExtensions ==
  ({"drop schema", "drop role"} \cap failed # {})
    => /\ pc \in {"exit_with", "main", "shell"}
       /\ exc = "Exception"
       /\ ~tdDone
       /\ issued \cap ExtCleanupStmts = {}

C18_Witness ==
  /\ pc = "main"
  /\ "drop role" \in failed
  /\ created = Exts
  /\ Exts \subseteq db
  /\ Schema \in db

\* C19: setup_demo issues create extension X exactly when X is not in the
\* registry, and no statement touching X when it is
C19_CreateOnlyUnregistered ==
  \A X \in Exts :
    LET create == "create extension " \o X IN
    /\ create \in issued => X \notin EXTENSIONS
    /\ (pc \in {"setup_search_path", "setup_commit"} /\ X \notin EXTENSIONS)
         => create \in issued
    /\ (pc = "setup_ext_pg_stat_statements" /\ "pg_trgm" \notin EXTENSIONS)
         => "create extension pg_trgm" \in issued

C19_Witness ==
  /\ pc = "setup_commit"
  /\ EXTENSIONS = {"pg_trgm"}
  /\ issued \cap SetupStmts =
       {"create schema", "create extension pg_stat_statements", "set search_path"}
  /\ tx = "intrans"

\* C20: the namespace drop and the role drop take effect together: when
\* run_demo terminates both are committed or neither is, and both are committed
\* before the extension clean-up starts
C20_SchemaAndRoleDropTogether ==
  /\ (Terminated /\ tdDb # NoDb /\ {Schema, UNPRIV_USER} \subseteq tdDb)
       => (Schema \in db <=> UNPRIV_USER \in db)
  /\ (pc \in {"td_select_extensions", "td_drop_extensions"})
       => (Schema \notin db /\ UNPRIV_USER \notin db)

\* with autocommit off the two drops are one transaction
C20_TogetherUnlessAutocommit ==
  (Terminated /\ tdDb # NoDb /\ {Schema, UNPRIV_USER} \subseteq tdDb /\ ~autocommit)
    => (Schema \in db <=> UNPRIV_USER \in db)

\* positions of setup, the demos and teardown, where statements are issued
StatementPcs == ValidatePcs \cup SetupPcs \cup TrgmPcs \cup PssPcs \cup TeardownPcs

\* C21: the primary session's autocommit flag is on only while an analyze
\* statement executes: it is off at every position where another statement is
\* issued, at every statement of teardown_demo in particular, also after an
\* analyze statement raised
C21_AutocommitOnlyDuringAnalyze ==
  pc \in StatementPcs => ~autocommit

\* the flag is on only after an analyze statement raised
C21_OnOnlyAfterFailedAnalyze ==
  autocommit => "analyze addr" \in failed

\* positions of teardown_demo reached by revokes only
AfterRevokePcs == {"td_revoke_schema", "td_revoke_database", "td_drop_schema"}

\* C22: the three revokes of teardown_demo share one uncommitted transaction:
\* a revoke that fails leaves the session with exactly what was committed when
\* teardown started, and no revoke's effect is committed before the commit that
\* follows the namespace and role drops
C22_RevokesShareTransaction ==
  [][/\ pc' \in AfterRevokePcs => db' = tdDb'
     /\ (pc' = "td_drop_role" /\ "acl_db" \in tdDb') => "acl_db" \in db'
     /\ ((failed' \cap RevokeStmts) \ failed # {})
          => (work' = tdDb' /\ tx' = "idle")]_vars

\* with autocommit off the revokes are one uncommitted transaction
C22_SharedUnlessAutocommit ==
  [][~autocommit =>
       /\ pc' \in AfterRevokePcs => db' = tdDb'
       /\ (pc' = "td_drop_role" /\ "acl_db" \in tdDb') => "acl_db" \in db'
       /\ ((failed' \cap RevokeStmts) \ failed # {})
            => (work' = tdDb' /\ tx' = "idle")]_vars

\* a revoke succeeded and a later one failed in a teardown with autocommit off
C22_RolledBackRevoke ==
  /\ pc = "td_drop_schema"
  /\ ~autocommit
  /\ "revoke function" \in issued \ failed
  /\ "revoke database" \in failed
  /\ "acl_fn" \in work

====
